---- MODULE Spec2Model ----
(***************************************************************************)
(* Model of the telekinesis plug test double:                              *)
(*   - FakeDeviceConnector (connect / disconnect / send) with its outbound *)
(*     tokio mpsc channel and the spawned device announcement task,        *)
(*   - FakeConnectorCallRegistry (store_record / get_device) behind its    *)
(*     Arc<Mutex<HashMap<u32, Box<Vec<FakeMessage>>>>>,                    *)
(*   - the target resolver TkParams::from_input of input.rs.               *)
(***************************************************************************)
EXTENDS Integers, Sequences, FiniteSets, TLC

\* ------------------------------------------------------------------ bounds
MaxRoster == 2
MaxSends == 2
MaxGets == 2
ChanCap == 2
MaxEvents == 2
MaxSettings == 2
MaxConnects == 2

\* --------------------------------------------------------------- utilities
None == "None"

Range(s) == {s[i] : i \in 1..Len(s)}

SeqsUpTo(S, n) == UNION {[1..k -> S] : k \in 0..n}

\* ------------------------------------------------------- threads and heap
Threads == {"t1", "t2"}
ClientThread == "t1"

\* Box<Vec<FakeMessage>> and Vec<FakeMessage> values live on the heap; an
\* allocation takes the lowest free address.
Alloc(h) ==
    CHOOSE a \in 1..(Cardinality(DOMAIN h) + 1) :
        a \notin DOMAIN h /\ \A b \in 1..(a - 1) : b \in DOMAIN h

HeapPut(h, a, v) == [x \in DOMAIN h \cup {a} |-> IF x = a THEN v ELSE h[x]]

HeapFree(h, as) == [x \in DOMAIN h \ as |-> h[x]]

MapPut(m, k, v) == [x \in DOMAIN m \cup {k} |-> IF x = k THEN v ELSE m[x]]

\* ------------------------------------------------------ message vocabulary
DeviceIds == {1, 12}

\* DeviceAdded descriptors built by vibrator / linear / rotate
vibrator(id, name) == [DeviceIndex |-> id, DeviceName |-> name, attributes |-> "ScalarCmd"]
linear(id, name) == [DeviceIndex |-> id, DeviceName |-> name, attributes |-> "LinearCmd"]
rotate(id, name) == [DeviceIndex |-> id, DeviceName |-> name, attributes |-> "RotateCmd"]

RosterEntries == {vibrator(1, "eins"), linear(12, "zwei"), vibrator(12, "eins")}

\* Client messages (ButtplugCurrentSpecClientMessage); f64 payloads are
\* carried verbatim, written here in thousandths.
ScalarCmd(id, d, s) ==
    [kind |-> "ScalarCmd", Id |-> id, DeviceIndex |-> d,
     Scalars |-> <<[Index |-> 0, Scalar |-> s, ActuatorType |-> "Vibrate"]>>]
LinearCmd(id, d, dur, pos) ==
    [kind |-> "LinearCmd", Id |-> id, DeviceIndex |-> d,
     Vectors |-> <<[Index |-> 0, Duration |-> dur, Position |-> pos]>>]
RotateCmd(id, d, sp, cw) ==
    [kind |-> "RotateCmd", Id |-> id, DeviceIndex |-> d,
     Rotations |-> <<[Index |-> 0, Speed |-> sp, Clockwise |-> cw]>>]
Plain(kind, id) == [kind |-> kind, Id |-> id]

RecordedKinds == {"ScalarCmd", "LinearCmd", "RotateCmd"}
ScanKinds == {"StartScanning", "StopScanning"}

\* stop-all-devices passed to store_record as well
StoredKindsWithStop == RecordedKinds \cup ScanKinds \cup {"StopAllDevices"}

\* the arms of send that call store_record
StoredKinds == RecordedKinds \cup ScanKinds

\* the commands that address a device
DeviceMessages(id) ==
    {ScalarCmd(id, 1, 700), ScalarCmd(id, 12, 1000), LinearCmd(id, 12, 42, 900),
     RotateCmd(id, 1, 420, FALSE), RotateCmd(id, 12, 420, TRUE)}

ClientMessages(id) ==
    DeviceMessages(id)
    \cup {Plain(k, id) : k \in {"RequestServerInfo", "RequestDeviceList",
                                "StopAllDevices", "StartScanning",
                                "StopScanning", "Ping"}}

\* Server messages (ButtplugSpecV3ServerMessage)
ServerInfoId == 0
DeviceAddedId == 0
OkMsg(id) == [kind |-> "Ok", Id |-> id]
ServerInfoMsg ==
    [kind |-> "ServerInfo", Id |-> ServerInfoId, ServerName |-> "test server",
     MessageVersion |-> 3, MaxPingTime |-> 0]
\* a device list that reports a device of the roster
DeviceListMsg_roster(id) ==
    [kind |-> "DeviceList", Id |-> id, Devices |-> <<vibrator(1, "eins")>>]

DeviceListMsg(id) == [kind |-> "DeviceList", Id |-> id, Devices |-> <<>>]
DeviceAddedMsg(dev) == [kind |-> "DeviceAdded", Id |-> DeviceAddedId, device |-> dev]

\* ---------------------------------------------------------------- get_value
\* serde_json text of an unsigned number, most significant digit first
Digit(n) == CASE n = 0 -> "0" [] n = 1 -> "1" [] n = 2 -> "2" [] n = 3 -> "3"
              [] n = 4 -> "4" [] n = 5 -> "5" [] n = 6 -> "6" [] n = 7 -> "7"
              [] n = 8 -> "8" [] n = 9 -> "9"

RECURSIVE ToDecimal(_)
ToDecimal(n) == IF n < 10 THEN <<Digit(n)>> ELSE Append(ToDecimal(n \div 10), Digit(n % 10))

DigitValue(c) == CASE c = "0" -> 0 [] c = "1" -> 1 [] c = "2" -> 2 [] c = "3" -> 3
                   [] c = "4" -> 4 [] c = "5" -> 5 [] c = "6" -> 6 [] c = "7" -> 7
                   [] c = "8" -> 8 [] c = "9" -> 9 [] OTHER -> -1

\* value[key].to_string(): the number's text, or "null" for a missing key
get_value(val, key) ==
    IF key \in DOMAIN val THEN ToDecimal(val[key]) ELSE <<"n", "u", "l", "l">>

\* str::parse::<u32>: Err (None) unless every character is a digit
RECURSIVE ParseDigits(_, _)
ParseDigits(s, acc) ==
    IF s = <<>> THEN acc
    ELSE IF DigitValue(Head(s)) < 0 THEN -1
    ELSE ParseDigits(Tail(s), acc * 10 + DigitValue(Head(s)))

ParseError == -1

ParseU32(s) ==
    LET v == IF s = <<>> THEN -1 ELSE ParseDigits(s, 0)
    IN IF v < 0 \/ v \div 65536 >= 65536 THEN ParseError ELSE v

\* ------------------------------------------------------------ assert_duration
\* A u32 is kept at its full width as two 16-bit halves, hi * 65536 + lo.
U32(hi, lo) == [hi |-> hi, lo |-> lo]

u32_lt(x, y) == x.hi < y.hi \/ (x.hi = y.hi /\ x.lo < y.lo)

\* x - n and x + n on u32 for n < 65536: the wrapped value and whether the
\* operation overflowed
u32_sub(x, n) ==
    IF x.lo >= n THEN [overflow |-> FALSE, value |-> U32(x.hi, x.lo - n)]
    ELSE IF x.hi > 0 THEN [overflow |-> FALSE, value |-> U32(x.hi - 1, x.lo + 65536 - n)]
    ELSE [overflow |-> TRUE, value |-> U32(65535, x.lo + 65536 - n)]

u32_add(x, n) ==
    IF x.lo + n < 65536 THEN [overflow |-> FALSE, value |-> U32(x.hi, x.lo + n)]
    ELSE IF x.hi < 65535 THEN [overflow |-> FALSE, value |-> U32(x.hi + 1, x.lo + n - 65536)]
    ELSE [overflow |-> TRUE, value |-> U32(0, x.lo + n - 65536)]

Tolerance == 10

\* assert!(actual > duration - 10 && actual < duration + 10) for one vector.
\* With overflow checks (debug build) an overflowing bound panics, without
\* them (release build) it wraps; && evaluates the upper bound only when the
\* lower test passed.
assert_vector(actual, duration, overflow_checks) ==
    LET lower == u32_sub(duration, Tolerance)
        upper == u32_add(duration, Tolerance)
    IN IF lower.overflow /\ overflow_checks THEN "OverflowPanic"
       ELSE IF ~u32_lt(lower.value, actual) THEN "AssertionFailed"
       ELSE IF upper.overflow /\ overflow_checks THEN "OverflowPanic"
       ELSE IF ~u32_lt(actual, upper.value) THEN "AssertionFailed"
       ELSE "Passed"

RECURSIVE assert_vectors(_, _, _)
assert_vectors(vectors, duration, overflow_checks) ==
    IF vectors = <<>> THEN "Passed"
    ELSE LET v == assert_vector(Head(vectors).Duration, duration, overflow_checks)
         IN IF v # "Passed" THEN v
            ELSE assert_vectors(Tail(vectors), duration, overflow_checks)

\* FakeMessage::assert_duration: how the call ends
assert_duration(self, duration, overflow_checks) ==
    IF self.message.kind = "LinearCmd"
    THEN assert_vectors(self.message.Vectors, duration, overflow_checks)
    ELSE "Message is not linear cmd"

\* ---------------------------------------------------------------- input.rs
\* Strings are sequences of characters.
ToLowerChar(c) == CASE c = "V" -> "v" [] c = "S" -> "s" [] OTHER -> c

to_lowercase(str) == [i \in 1..Len(str) |-> ToLowerChar(str[i])]

IsWhitespace(c) == c = " "

RECURSIVE trim_start(_)
trim_start(str) ==
    IF str # <<>> /\ IsWhitespace(Head(str)) THEN trim_start(Tail(str)) ELSE str

RECURSIVE trim_end(_)
trim_end(str) ==
    IF str # <<>> /\ IsWhitespace(str[Len(str)])
    THEN trim_end(SubSeq(str, 1, Len(str) - 1))
    ELSE str

trim(str) == trim_end(trim_start(str))

\* sanitize_name_list that lower-cases without trimming
sanitize_name_list_untrimmed(list) == [i \in 1..Len(list) |-> to_lowercase(list[i])]

\* list.iter().map(|e| String::from(e.to_lowercase().trim())).collect()
sanitize_name_list(list) == [i \in 1..Len(list) |-> trim(to_lowercase(list[i]))]

\* input.split(","): the segments between commas, empty ones included
RECURSIVE split(_)
split(str) ==
    IF \A i \in 1..Len(str) : str[i] # ","
    THEN <<str>>
    ELSE LET i == CHOOSE j \in 1..Len(str) :
                      str[j] = "," /\ \A k \in 1..(j - 1) : str[k] # ","
         IN <<SubSeq(str, 1, i - 1)>> \o split(SubSeq(str, i + 1, Len(str)))

\* parse_list_string: every part with part.len() > 0 is pushed as
\* part.trim().to_lowercase()
parse_list_string(str) ==
    LET parts == SelectSeq(split(str), LAMBDA part : Len(part) > 0)
    IN [i \in 1..Len(parts) |-> to_lowercase(trim(parts[i]))]

\* CxxString::to_string_lossy: bytes that are not UTF-8 become U+FFFD
to_string_lossy(d) == [i \in 1..Len(d) |-> IF d[i] = "0xFF" THEN "U+FFFD" ELSE d[i]]

\* read_input_string: the non-empty elements, as owned strings
read_input_string(list) ==
    LET kept == SelectSeq(list, LAMBDA d : Len(d) > 0)
    IN [i \in 1..Len(kept) |-> to_string_lossy(kept[i])]

\* event_names.contains(e)
contains(list, e) == \E i \in 1..Len(list) : list[i] = e

\* the filter closure without the enabled test
SelectedIgnoringEnabled(d, event_names) ==
    Len(event_names) = 0
    \/ \E i \in 1..Len(d.events) : contains(event_names, d.events[i])

\* the filter closure of from_input
Selected(d, event_names) ==
    d.enabled /\ (Len(event_names) = 0
                  \/ \E i \in 1..Len(d.events) : contains(event_names, d.events[i]))

RECURSIVE FilterNames(_, _)
FilterNames(list, event_names) ==
    IF list = <<>> THEN <<>>
    ELSE IF Selected(Head(list), event_names)
         THEN <<Head(list).name>> \o FilterNames(Tail(list), event_names)
         ELSE FilterNames(Tail(list), event_names)

\* TkParams::from_input
from_input(events, pattern, list) ==
    [selector |-> FilterNames(list, sanitize_name_list(events)),
     pattern |-> pattern,
     events |-> events]

\* d.message_attributes().scalar_cmd().is_some(); a connected device is
\* [name, attributes], attributes being the command kinds it advertises
scalar_cmd_is_some(d) == "ScalarCmd" \in d.attributes

\* TkParams::filter_devices
filter_devices(self, list) ==
    SelectSeq(list, LAMBDA d :
        /\ \E i \in 1..Len(self.selector) : self.selector[i] = d.name
        /\ scalar_cmd_is_some(d))

\* ------------------------------------------------------------------- state
VARIABLES
    devices,                \* FakeDeviceConnector.devices (the roster)
    server_outbound_sender, \* index of the channel the connector sends on
    chan,                   \* channel -> [open, buf]: receiver alive, queued messages
    received,               \* channel -> messages the client took from it
    emitted,                \* channel -> every message ever queued on it
    task,                   \* connect call -> its future and announcement task
    disconnected,           \* disconnect() has returned
    actions,                \* FakeConnectorCallRegistry.actions: device id -> Box address
    heap,                   \* address -> Vec<FakeMessage>
    lock,                   \* thread holding the registry mutex, or None
    poisoned,               \* the mutex is poisoned
    pc,                     \* thread -> position
    cur,                    \* thread -> data of the call in progress
    ret,                    \* thread -> outcome of its last call
    got,                    \* thread -> address of the Vec its last get_device returned (0: none)
    log,                    \* messages passed to send, in call order
    clock,                  \* Instant::now(), advanced by every FakeMessage::new
    nGets,                  \* number of get_device calls so far
    settings,               \* resolver input: Vec<TkDeviceSettings>
    params,                 \* resolver output: TkParams
    connected,              \* filter_devices input: the connected DeviceList
    filtered,               \* filter_devices output
    input,                  \* parse_list_string input
    parsed,                 \* parse_list_string output
    recorded,               \* the FakeMessage assert_duration is called on
    expected,               \* assert_duration's argument
    verdict                 \* how the assert_duration call ended

connVars == <<devices, server_outbound_sender, chan, received, emitted,
              task, disconnected>>
regVars == <<actions, heap, lock, poisoned>>
threadVars == <<pc, cur, ret, got, log, clock, nGets>>
resolveVars == <<settings, params>>
helperVars == <<connected, filtered, input, parsed, recorded, expected, verdict>>
vars == <<connVars, regVars, threadVars, resolveVars, helperVars>>

\* channel 0 is the one created by new, channel k the one handed to the
\* k-th call of connect
Connects == 1..MaxConnects
Chans == {0} \cup Connects
Idle == [op |-> "none"]
ClosedChan == [open |-> FALSE, buf |-> <<>>]
NoTask == [pc |-> "none", i |-> 1]

\* FakeDeviceConnector::new: the receiver of channel(256) is dropped at once,
\* the registry starts with an empty map.
ConnectorInit(roster) ==
    /\ devices = roster
    /\ server_outbound_sender = 0
    /\ chan = [k \in Chans |-> ClosedChan]
    /\ received = [k \in Chans |-> <<>>]
    /\ emitted = [k \in Chans |-> <<>>]
    /\ task = [k \in Connects |-> NoTask]
    /\ disconnected = FALSE
    /\ actions = <<>>
    /\ heap = <<>>
    /\ lock = None
    /\ poisoned = FALSE
    /\ pc = [t \in Threads |-> "idle"]
    /\ cur = [t \in Threads |-> Idle]
    /\ ret = [t \in Threads |-> None]
    /\ got = [t \in Threads |-> 0]
    /\ log = <<>>
    /\ clock = 0
    /\ nGets = 0

NoParams == [selector |-> <<>>, pattern |-> None, events |-> <<>>]

\* no call of filter_devices, parse_list_string or assert_duration was made
NoResult == [done |-> FALSE, list |-> <<>>]
HelpersIdle ==
    /\ connected = <<>>
    /\ filtered = NoResult
    /\ input = <<>>
    /\ parsed = NoResult
    /\ recorded = Idle
    /\ expected = Idle
    /\ verdict = None

Init ==
    /\ ConnectorInit(<<vibrator(1, "eins"), linear(12, "zwei")>>)
    /\ settings = <<>>
    /\ params = NoParams
    /\ HelpersIdle

\* ----------------------------------------------------- connect / disconnect
\* connect(message_sender): clones the roster and stores the sender at
\* once, and returns the future that will spawn the announcement task. A
\* later call replaces the sender again; &mut self keeps it apart from a
\* send in progress.
connect ==
    /\ server_outbound_sender < MaxConnects
    /\ \A t \in Threads : pc[t] # "store"
    /\ LET k == server_outbound_sender + 1 IN
        /\ server_outbound_sender' = k
        /\ chan' = [chan EXCEPT ![k] = [open |-> TRUE, buf |-> <<>>]]
        /\ task' = [task EXCEPT ![k] = [pc |-> "future", i |-> 1]]
    /\ UNCHANGED <<devices, received, emitted, disconnected>>
    /\ UNCHANGED <<regVars, threadVars, resolveVars, helperVars>>

\* the future returned by connect is polled: it spawns the announcement
\* task and completes with Ok(())
ConnectPoll(k) ==
    /\ task[k].pc = "future"
    /\ task' = [task EXCEPT ![k].pc = "sleep"]
    /\ UNCHANGED <<devices, server_outbound_sender, chan, received,
                   emitted, disconnected>>
    /\ UNCHANGED <<regVars, threadVars, resolveVars, helperVars>>

\* the future returned by connect is dropped without being polled: no task
\* is ever spawned for this call
ConnectDrop(k) ==
    /\ task[k].pc = "future"
    /\ task' = [task EXCEPT ![k].pc = "dropped"]
    /\ UNCHANGED <<devices, server_outbound_sender, chan, received,
                   emitted, disconnected>>
    /\ UNCHANGED <<regVars, threadVars, resolveVars, helperVars>>

\* a roster announced wrongly: every notification carries the first entry
AnnouncementOfFirst(roster, i) == DeviceAddedMsg(roster[1])

\* the notification sent for the i-th roster entry
Announcement(roster, i) == DeviceAddedMsg(roster[i])

\* the task's sleep(10ms) elapses
AnnounceWake(k) ==
    /\ task[k].pc = "sleep"
    /\ task' = [task EXCEPT ![k].pc = IF devices = <<>> THEN "done" ELSE "send"]
    /\ UNCHANGED <<devices, server_outbound_sender, chan, received,
                   emitted, disconnected>>
    /\ UNCHANGED <<regVars, threadVars, resolveVars, helperVars>>

\* one iteration of `for device in devices`: send(DeviceAdded(device)).await,
\* panic!() when the send fails; a full channel suspends the task
AnnounceSend(k) ==
    /\ task[k].pc = "send"
    /\ IF ~chan[k].open
         THEN /\ task' = [task EXCEPT ![k].pc = "panicked"]
              /\ UNCHANGED <<chan, emitted>>
         ELSE /\ Len(chan[k].buf) < ChanCap
              /\ LET m == Announcement(devices, task[k].i) IN
                  /\ chan' = [chan EXCEPT ![k].buf = Append(@, m)]
                  /\ emitted' = [emitted EXCEPT ![k] = Append(@, m)]
              /\ task' = [task EXCEPT ![k] =
                            [pc |-> IF task[k].i = Len(devices) THEN "done" ELSE "send",
                             i |-> task[k].i + 1]]
    /\ UNCHANGED <<devices, server_outbound_sender, received, disconnected>>
    /\ UNCHANGED <<regVars, threadVars, resolveVars, helperVars>>

\* disconnect: async move { Ok(()) }
disconnect ==
    /\ ~disconnected
    /\ disconnected' = TRUE
    /\ UNCHANGED <<devices, server_outbound_sender, chan, received,
                   emitted, task>>
    /\ UNCHANGED <<regVars, threadVars, resolveVars, helperVars>>

\* the client takes the next message from its receiver
ClientRecv(k) ==
    /\ chan[k].open
    /\ chan[k].buf # <<>>
    /\ received' = [received EXCEPT ![k] = Append(@, Head(chan[k].buf))]
    /\ chan' = [chan EXCEPT ![k].buf = Tail(@)]
    /\ UNCHANGED <<devices, server_outbound_sender, emitted, task, disconnected>>
    /\ UNCHANGED <<regVars, threadVars, resolveVars, helperVars>>

\* the client drops its receiver: queued messages are discarded
DropReceiver(k) ==
    /\ chan[k].open
    /\ chan' = [chan EXCEPT ![k] = ClosedChan]
    /\ UNCHANGED <<devices, server_outbound_sender, received, emitted,
                   task, disconnected>>
    /\ UNCHANGED <<regVars, threadVars, resolveVars, helperVars>>

\* ------------------------------------------------------------ call registry
\* a copy that clamps a scalar to full strength
FakeMessage_new_clamped(msg, now) ==
    [message |-> IF msg.kind = "ScalarCmd"
                 THEN [msg EXCEPT !.Scalars = <<[@[1] EXCEPT !.Scalar = 1000]>>]
                 ELSE msg,
     time |-> now]

FakeMessage_new(msg, now) == [message |-> msg, time |-> now]

\* contents of the Vec stored for a device, <<>> for an absent key
Bucket(calls, h, device_id) ==
    IF device_id \in DOMAIN calls THEN h[calls[device_id]] ELSE <<>>

\* store_record that replaces the whole map by the one bucket it wrote
store_record_clobbering(calls, h, imp, cmd) ==
    LET device_id == ParseU32(get_value(imp, "DeviceIndex"))
        a == Alloc(h)
    IN IF device_id = ParseError
       THEN [ok |-> FALSE, actions |-> calls, heap |-> h]
       ELSE [ok |-> TRUE,
             actions |-> MapPut(<<>>, device_id, a),
             heap |-> HeapFree(HeapPut(h, a, Append(Bucket(calls, h, device_id), cmd)),
                               {calls[e] : e \in DOMAIN calls})]

\* store_record that pushes to the cloned bucket and never inserts it
store_record_no_insert(calls, h, imp, cmd) ==
    LET device_id == ParseU32(get_value(imp, "DeviceIndex"))
    IN [ok |-> device_id # ParseError, actions |-> calls, heap |-> h]

\* store_record once the lock is held: parse the DeviceIndex, clone the bucket
\* (or Box::new(vec![])), push cmd, insert it; the replaced Box is dropped.
store_record(calls, h, imp, cmd) ==
    LET device_id == ParseU32(get_value(imp, "DeviceIndex"))
        a == Alloc(h)
        old == IF device_id \in DOMAIN calls THEN {calls[device_id]} ELSE {}
    IN IF device_id = ParseError
       THEN [ok |-> FALSE, actions |-> calls, heap |-> h]
       ELSE [ok |-> TRUE,
             actions |-> MapPut(calls, device_id, a),
             heap |-> HeapFree(HeapPut(h, a, Append(Bucket(calls, h, device_id), cmd)), old)]

\* get_device that hands out the registry's own Box instead of a clone
get_device_live(calls, h, device_id) ==
    IF device_id \in DOMAIN calls
    THEN [addr |-> calls[device_id], heap |-> h]
    ELSE [addr |-> Alloc(h), heap |-> HeapPut(h, Alloc(h), <<>>)]

\* get_device once the lock is held: `*some.clone()` or vec![], a fresh Vec
get_device(calls, h, device_id) ==
    LET a == Alloc(h)
    IN [addr |-> a, heap |-> HeapPut(h, a, Bucket(calls, h, device_id))]

\* an acknowledgement future that completes without touching the sender
ok_response_ready(sender, msg_id) ==
    [op |-> "future", chan |-> sender, sends |-> FALSE, reply |-> OkMsg(msg_id)]

\* ok_response: a future that sends Ok with the message id on the sender
ok_response(sender, msg_id) ==
    [op |-> "future", chan |-> sender, sends |-> TRUE, reply |-> OkMsg(msg_id)]

Future(sender, reply) == [op |-> "future", chan |-> sender, sends |-> TRUE, reply |-> reply]

\* the catch-all arm: async move { Ok(()) }
ReadyOk(sender) == [op |-> "future", chan |-> sender, sends |-> FALSE, reply |-> OkMsg(0)]

Panic(t, why) ==
    /\ pc' = [pc EXCEPT ![t] = "panicked"]
    /\ cur' = [cur EXCEPT ![t] = Idle]
    /\ ret' = [ret EXCEPT ![t] = why]

\* ------------------------------------------------------------------- send
\* send(msg) up to the point where it returns its future, or, for a recorded
\* command, up to try_lock() in store_record.
send(t, msg) ==
    /\ pc[t] = "idle"
    /\ Len(log) < MaxSends
    /\ log' = Append(log, msg)
    /\ LET sender == server_outbound_sender IN
       IF msg.kind \in StoredKinds
       THEN /\ clock' = clock + 1
            /\ IF lock # None
               THEN Panic(t, "WouldBlock") /\ UNCHANGED lock
               ELSE IF poisoned
               THEN Panic(t, "PoisonError") /\ UNCHANGED lock
               ELSE /\ lock' = t
                    /\ pc' = [pc EXCEPT ![t] = "store"]
                    /\ cur' = [cur EXCEPT ![t] =
                                [op |-> "store", imp |-> msg,
                                 cmd |-> FakeMessage_new(msg, clock)]]
                    /\ ret' = [ret EXCEPT ![t] = None]
       ELSE /\ pc' = [pc EXCEPT ![t] = "future"]
            /\ ret' = [ret EXCEPT ![t] = None]
            /\ cur' = [cur EXCEPT ![t] =
                        CASE msg.kind = "RequestServerInfo" -> Future(sender, ServerInfoMsg)
                          [] msg.kind = "RequestDeviceList" -> Future(sender, DeviceListMsg(msg.Id))
                          [] msg.kind = "StopAllDevices" -> ok_response(sender, msg.Id)
                          [] OTHER -> ReadyOk(sender)]
            /\ UNCHANGED <<lock, clock>>
    /\ UNCHANGED <<actions, heap, poisoned, got, nGets>>
    /\ UNCHANGED <<connVars, resolveVars, helperVars>>

\* a send that records only while the outbound channel has a receiver
StoreFinish_if_connected(t) ==
    /\ pc[t] = "store"
    /\ LET r == IF chan[server_outbound_sender].open
                THEN store_record(actions, heap, cur[t].imp, cur[t].cmd)
                ELSE [ok |-> TRUE, actions |-> actions, heap |-> heap] IN
        /\ actions' = r.actions
        /\ heap' = r.heap
        /\ IF r.ok
           THEN /\ pc' = [pc EXCEPT ![t] = "future"]
                /\ cur' = [cur EXCEPT ![t] =
                            ok_response(server_outbound_sender, cur[t].imp.Id)]
                /\ UNCHANGED <<ret, poisoned>>
           ELSE Panic(t, "ParseIntError") /\ poisoned' = TRUE
    /\ lock' = None
    /\ UNCHANGED <<got, log, clock, nGets>>
    /\ UNCHANGED <<connVars, resolveVars, helperVars>>

\* the rest of store_record, then ok_response(msg_id); a failed parse of the
\* DeviceIndex panics with the guard alive, which poisons the mutex
StoreFinish(t) ==
    /\ pc[t] = "store"
    /\ LET r == store_record(actions, heap, cur[t].imp, cur[t].cmd) IN
       IF r.ok
       THEN /\ actions' = r.actions
            /\ heap' = r.heap
            /\ pc' = [pc EXCEPT ![t] = "future"]
            /\ cur' = [cur EXCEPT ![t] = ok_response(server_outbound_sender, cur[t].imp.Id)]
            /\ UNCHANGED <<ret, poisoned>>
       ELSE /\ Panic(t, "ParseIntError")
            /\ poisoned' = TRUE
            /\ UNCHANGED <<actions, heap>>
    /\ lock' = None
    /\ UNCHANGED <<got, log, clock, nGets>>
    /\ UNCHANGED <<connVars, resolveVars, helperVars>>

\* the future returned by send is awaited: sender.send(reply).await mapped
\* to ConnectorNotConnected on error; a full channel suspends the caller
PollFuture(t) ==
    /\ pc[t] = "future"
    /\ LET k == cur[t].chan IN
       IF ~cur[t].sends
       THEN /\ ret' = [ret EXCEPT ![t] = "Ok"]
            /\ UNCHANGED <<chan, emitted>>
       ELSE IF ~chan[k].open
       THEN /\ ret' = [ret EXCEPT ![t] = "ConnectorNotConnected"]
            /\ UNCHANGED <<chan, emitted>>
       ELSE /\ Len(chan[k].buf) < ChanCap
            /\ chan' = [chan EXCEPT ![k].buf = Append(@, cur[t].reply)]
            /\ emitted' = [emitted EXCEPT ![k] = Append(@, cur[t].reply)]
            /\ ret' = [ret EXCEPT ![t] = "Ok"]
    /\ pc' = [pc EXCEPT ![t] = "idle"]
    /\ cur' = [cur EXCEPT ![t] = Idle]
    /\ UNCHANGED <<devices, server_outbound_sender, received, task, disconnected>>
    /\ UNCHANGED <<got, log, clock, nGets>>
    /\ UNCHANGED <<regVars, resolveVars, helperVars>>

\* ------------------------------------------------------------- get_device
\* self.actions.lock().unwrap(): waits for the mutex, panics when poisoned.
\* The Vec returned by the caller's previous query is dropped.
GetLock(t, device_id) ==
    /\ pc[t] = "idle"
    /\ nGets < MaxGets
    /\ lock = None
    /\ nGets' = nGets + 1
    /\ heap' = HeapFree(heap, {got[t]})
    /\ got' = [got EXCEPT ![t] = 0]
    /\ IF poisoned
       THEN Panic(t, "PoisonError") /\ UNCHANGED lock
       ELSE /\ lock' = t
            /\ pc' = [pc EXCEPT ![t] = "get"]
            /\ cur' = [cur EXCEPT ![t] = [op |-> "get", device_id |-> device_id]]
            /\ ret' = [ret EXCEPT ![t] = None]
    /\ UNCHANGED <<actions, poisoned, log, clock>>
    /\ UNCHANGED <<connVars, resolveVars, helperVars>>

\* the match on the locked map; the guard is released when it ends
GetFinish(t) ==
    /\ pc[t] = "get"
    /\ LET r == get_device(actions, heap, cur[t].device_id) IN
        /\ heap' = r.heap
        /\ got' = [got EXCEPT ![t] = r.addr]
    /\ lock' = None
    /\ pc' = [pc EXCEPT ![t] = "idle"]
    /\ cur' = [cur EXCEPT ![t] = Idle]
    /\ ret' = [ret EXCEPT ![t] = "Returned"]
    /\ UNCHANGED <<actions, poisoned, log, clock, nGets>>
    /\ UNCHANGED <<connVars, resolveVars, helperVars>>

\* ------------------------------------------------------------ specification
\* connect as a client calls it: once on a fresh connector
FirstConnect == server_outbound_sender = 0 /\ connect

\* The connector driven by one client task that sends commands: connect, the
\* announcement task, send and its acknowledgement, the client's receiver.
Next ==
    \/ FirstConnect
    \/ \E k \in Connects : ConnectPoll(k)
    \/ \E k \in Connects : ConnectDrop(k)
    \/ \E k \in Connects : AnnounceWake(k)
    \/ \E k \in Connects : AnnounceSend(k)
    \/ \E k \in Connects : ClientRecv(k)
    \/ \E k \in Connects : DropReceiver(k)
    \/ \E msg \in ClientMessages(Len(log) + 1) : send(ClientThread, msg)
    \/ StoreFinish(ClientThread)
    \/ PollFuture(ClientThread)

Spec == Init /\ [][Next]_vars

\* The handshake for every roster: connect, the announcement task, the
\* client's two requests, disconnect.
InitHandshake ==
    /\ \E roster \in SeqsUpTo(RosterEntries, MaxRoster) : ConnectorInit(roster)
    /\ settings = <<>>
    /\ params = NoParams
    /\ HelpersIdle

HandshakeMessages(id) == {Plain(k, id) : k \in {"RequestServerInfo", "RequestDeviceList"}}

NextHandshake ==
    \/ FirstConnect
    \/ \E k \in Connects : ConnectPoll(k)
    \/ \E k \in Connects : ConnectDrop(k)
    \/ disconnect
    \/ \E k \in Connects : AnnounceWake(k)
    \/ \E k \in Connects : AnnounceSend(k)
    \/ \E k \in Connects : ClientRecv(k)
    \/ \E k \in Connects : DropReceiver(k)
    \/ \E msg \in HandshakeMessages(Len(log) + 1) : send(ClientThread, msg)
    \/ PollFuture(ClientThread)

SpecHandshake == InitHandshake /\ [][NextHandshake]_vars

\* A connector that is connected again and again, for every roster: each
\* connect brings its own channel, future and announcement task.
NextReconnect ==
    \/ connect
    \/ \E k \in Connects : ConnectPoll(k)
    \/ \E k \in Connects : ConnectDrop(k)
    \/ \E k \in Connects : AnnounceWake(k)
    \/ \E k \in Connects : AnnounceSend(k)
    \/ \E k \in Connects : ClientRecv(k)
    \/ \E k \in Connects : DropReceiver(k)

SpecReconnect == InitHandshake /\ [][NextReconnect]_vars

\* The target resolver applied to every event list and device configuration.
EventStrings == {<<"V">>, <<" ", "v", " ">>, <<"v">>, <<"s">>}
SettingsEvents == {<<>>, <<<<"v">>>>, <<<<"s">>, <<"V">>>>}
SettingsEntries ==
    [name : {"a", "b"}, enabled : BOOLEAN, events : SettingsEvents]
EventLists == SeqsUpTo(EventStrings, MaxEvents)
\* from_input stores the pattern as it is passed; one value stands for it
Patterns == {"Funscript"}

InitResolve ==
    /\ ConnectorInit(<<>>)
    /\ settings \in SeqsUpTo(SettingsEntries, MaxSettings)
    /\ params = NoParams
    /\ HelpersIdle

Resolve(events, pattern) ==
    /\ params = NoParams
    /\ params' = from_input(events, pattern, settings)
    /\ UNCHANGED settings
    /\ UNCHANGED <<connVars, regVars, threadVars, helperVars>>

NextResolve == \E events \in EventLists : \E pattern \in Patterns : Resolve(events, pattern)

SpecResolve == InitResolve /\ [][NextResolve]_vars

\* Dispatch-time filtering applied to every selector, pattern and connected
\* device list.
MaxConnected == 2
MaxSelector == 2
DeviceNames == {"a", "b"}
CapabilitySets == {{}, {"ScalarCmd"}, {"LinearCmd"}, {"ScalarCmd", "LinearCmd"}}
ClientDevices == [name : DeviceNames, attributes : CapabilitySets]
\* the pattern is carried by TkParams and not read by filter_devices; the
\* two values stand for a pattern that vibrates and one that strokes
MotionPatterns == {"Vibration", "Stroke"}

InitFilter ==
    /\ ConnectorInit(<<>>)
    /\ settings = <<>>
    /\ params \in [selector : SeqsUpTo(DeviceNames, MaxSelector),
                   pattern : MotionPatterns,
                   events : {<<>>}]
    /\ connected \in SeqsUpTo(ClientDevices, MaxConnected)
    /\ filtered = NoResult
    /\ input = <<>>
    /\ parsed = NoResult
    /\ recorded = Idle
    /\ expected = Idle
    /\ verdict = None

Filter ==
    /\ ~filtered.done
    /\ filtered' = [done |-> TRUE, list |-> filter_devices(params, connected)]
    /\ UNCHANGED <<connected, input, parsed, recorded, expected, verdict>>
    /\ UNCHANGED <<connVars, regVars, threadVars, resolveVars>>

NextFilter == Filter

SpecFilter == InitFilter /\ [][NextFilter]_vars

\* parse_list_string applied to every string over a small alphabet.
MaxInput == 4
InputChars == {"a", "V", " ", ","}

InitParse ==
    /\ ConnectorInit(<<>>)
    /\ settings = <<>>
    /\ params = NoParams
    /\ connected = <<>>
    /\ filtered = NoResult
    /\ input \in SeqsUpTo(InputChars, MaxInput)
    /\ parsed = NoResult
    /\ recorded = Idle
    /\ expected = Idle
    /\ verdict = None

Parse ==
    /\ ~parsed.done
    /\ parsed' = [done |-> TRUE, list |-> parse_list_string(input)]
    /\ UNCHANGED <<connected, filtered, input, recorded, expected, verdict>>
    /\ UNCHANGED <<connVars, regVars, threadVars, resolveVars>>

NextParse == Parse

SpecParse == InitParse /\ [][NextParse]_vars

\* assert_duration applied to recorded commands with durations across the
\* u32 range.
MaxVectors == 2
Durations ==
    {U32(0, 0), U32(0, 5), U32(0, 10), U32(0, 15), U32(0, 20), U32(0, 500),
     U32(0, 510), U32(0, 65526), U32(0, 65530), U32(1, 0),
     U32(65535, 65525), U32(65535, 65530), U32(65535, 65535)}

\* a linear command whose vectors carry the given durations
LinearCmdOf(durs) ==
    [kind |-> "LinearCmd", Id |-> 1, DeviceIndex |-> 1,
     Vectors |-> [i \in 1..Len(durs) |->
                    [Index |-> i - 1, Duration |-> durs[i], Position |-> 900]]]

InitAssert ==
    /\ ConnectorInit(<<>>)
    /\ settings = <<>>
    /\ params = NoParams
    /\ connected = <<>>
    /\ filtered = NoResult
    /\ input = <<>>
    /\ parsed = NoResult
    /\ \E msg \in {LinearCmdOf(durs) : durs \in SeqsUpTo(Durations, MaxVectors)}
                  \cup {ScalarCmd(1, 1, 700)} :
          recorded = FakeMessage_new(msg, 0)
    /\ expected \in Durations
    /\ verdict = None

AssertDuration(overflow_checks) ==
    /\ verdict = None
    /\ verdict' = assert_duration(recorded, expected, overflow_checks)
    /\ UNCHANGED <<connected, filtered, input, parsed, recorded, expected>>
    /\ UNCHANGED <<connVars, regVars, threadVars, resolveVars>>

NextAssert == \E overflow_checks \in BOOLEAN : AssertDuration(overflow_checks)

SpecAssert == InitAssert /\ [][NextAssert]_vars

\* The registry shared by several threads: commands recorded through send on
\* a connector that was never connected, queried through get_device.
InitRegistry ==
    /\ ConnectorInit(<<vibrator(1, "eins"), linear(12, "zwei")>>)
    /\ settings = <<>>
    /\ params = NoParams
    /\ HelpersIdle

RegistryMessages(id) == DeviceMessages(id) \cup {Plain("StartScanning", id)}

NextRegistry ==
    \/ \E t \in Threads : \E msg \in RegistryMessages(Len(log) + 1) : send(t, msg)
    \/ \E t \in Threads : StoreFinish(t)
    \/ \E t \in Threads : PollFuture(t)
    \/ \E t \in Threads : \E d \in DeviceIds \cup {7} : GetLock(t, d)
    \/ \E t \in Threads : GetFinish(t)

SpecRegistry == InitRegistry /\ [][NextRegistry]_vars

\* ------------------------------------------------------------------ claims
\* get(d) as a value: the sequence the registry holds for device d
Vec(d) == Bucket(actions, heap, d)

DeviceAddedOn(k) == SelectSeq(emitted[k], LAMBDA m : m.kind = "DeviceAdded")

\* the notifications on the channel of the k-th connect are the first
\* entries of the roster, and all of them once that connect's task is done
C1_OnChannel(k) ==
    LET ann == DeviceAddedOn(k) IN
    /\ Len(ann) <= Len(devices)
    /\ \A i \in 1..Len(ann) :
         /\ ann[i].device.DeviceIndex = devices[i].DeviceIndex
         /\ ann[i].device.DeviceName = devices[i].DeviceName
         /\ ann[i].device.attributes = devices[i].attributes
    /\ task[k].pc = "done" => Len(ann) = Len(devices)
    /\ task[k].pc \in {"none", "future", "dropped", "sleep"} => ann = <<>>

\* C1: the device-added notifications put on the channel handed to a connect
\* are, at every moment, the first entries of the roster in roster order,
\* each with its entry's id and name, and once that connect's announcement
\* task has run to its end there are exactly |R| of them.
C1_AnnouncesRosterInOrder ==
    /\ \A k \in Connects : C1_OnChannel(k)
    /\ DeviceAddedOn(0) = <<>>

C1_Witness ==
    /\ Len(devices) = 2
    /\ devices[1] # devices[2]
    /\ server_outbound_sender = 2
    /\ \A k \in Connects :
          /\ task[k].pc = "done"
          /\ received[k] = <<DeviceAddedMsg(devices[1]), DeviceAddedMsg(devices[2])>>

IsRecorded(c) ==
    \E j \in 1..Len(Vec(c.DeviceIndex)) : Vec(c.DeviceIndex)[j].message = c

\* C2: whenever the acknowledgement of a scalar, linear or rotate command is
\* on the outbound channel (queued or already received by the client), the
\* registry sequence of the command's device contains the command.
C2_AckOnlyAfterRecord ==
    \A k \in Chans : \A i \in 1..Len(emitted[k]) :
        LET m == emitted[k][i] IN
        (m.kind = "Ok" /\ m.Id \in 1..Len(log) /\ log[m.Id].kind \in RecordedKinds)
            => IsRecorded(log[m.Id])

C2_Witness ==
    \E i \in 1..Len(received[1]) :
        /\ received[1][i].kind = "Ok"
        /\ received[1][i].Id \in 1..Len(log)
        /\ log[received[1][i].Id].kind = "LinearCmd"
        /\ IsRecorded(log[received[1][i].Id])

\* C3: every entry of the registry is the message passed to send, unaltered
\* (variant, device identifier, payload), filed under that message's device
\* identifier; and a command whose acknowledgement future exists has such an
\* entry.
C3_RecordedIsExactCopy ==
    /\ \A d \in DOMAIN actions : \A j \in 1..Len(Vec(d)) :
         LET m == Vec(d)[j].message IN
         /\ m.Id \in 1..Len(log)
         /\ m = log[m.Id]
         /\ m.kind \in RecordedKinds
         /\ m.DeviceIndex = d
    /\ \A t \in Threads :
         (pc[t] = "future" /\ log[Len(log)].kind \in RecordedKinds)
            => IsRecorded(log[Len(log)])

C3_Witness ==
    /\ 1 \in DOMAIN actions
    /\ 12 \in DOMAIN actions
    /\ Vec(1)[1].message.kind = "ScalarCmd"
    /\ Vec(1)[1].message.Scalars[1].Scalar = 700
    /\ Vec(12)[1].message.kind = "RotateCmd"
    /\ Vec(12)[1].message.Rotations[1].Speed = 420
    /\ Vec(12)[1].message.Rotations[1].Clockwise

\* the step that sends stop-all-devices: acknowledged, nothing recorded
C4_StopAllStep ==
    (log' # log /\ log'[Len(log')].kind = "StopAllDevices") =>
        /\ pc'[ClientThread] = "future"
        /\ cur'[ClientThread].sends
        /\ cur'[ClientThread].reply = OkMsg(log'[Len(log')].Id)
        /\ actions' = actions
        /\ \A d \in DOMAIN actions : heap'[actions'[d]] = heap[actions[d]]

C4_NoStopAllRecorded ==
    \A d \in DOMAIN actions : \A j \in 1..Len(heap[actions[d]]) :
        heap[actions[d]][j].message.kind # "StopAllDevices"

\* C4: sending stop-all-devices yields the acknowledgement future carrying
\* the command's id, leaves every device's sequence (and the set of keys)
\* unchanged, and no sequence ever contains a stop-all-devices message.
C4_StopAllNeverRecorded == [][C4_StopAllStep /\ C4_NoStopAllRecorded']_vars

C4_Witness ==
    /\ Len(log) = 2
    /\ log[1].kind = "ScalarCmd"
    /\ log[2].kind = "StopAllDevices"
    /\ Len(Vec(1)) = 1
    /\ \E i \in 1..Len(received[1]) : received[1][i] = OkMsg(2)

\* the send of log[i] is past store_record (it returned or panicked)
RecordOver(i) == \A t \in Threads : ~(pc[t] = "store" /\ cur[t].imp = log[i])

AddressedTo(d) ==
    LET idx == {i \in 1..Len(log) :
                  log[i].kind \in RecordedKinds /\ log[i].DeviceIndex = d /\ RecordOver(i)}
        F[n \in 0..Len(log)] ==
            IF n = 0 THEN <<>>
            ELSE IF n \in idx THEN Append(F[n - 1], log[n]) ELSE F[n - 1]
    IN F[Len(log)]

\* C5: the sequence held for device d is exactly the scalar, linear and
\* rotate commands addressed to d that send has received, in receipt order,
\* each exactly once.
C5_ExactlyTheCommandsReceived ==
    \A d \in DeviceIds :
        [j \in 1..Len(Vec(d)) |-> Vec(d)[j].message] = AddressedTo(d)

\* a get_device call goes through and returns <<>> exactly for an absent key
C6_GetStep ==
    /\ nGets' = nGets + 1 => \E t \in Threads : pc[t] = "idle" /\ pc'[t] = "get"
    /\ \A t \in Threads :
          (pc[t] = "get" /\ pc'[t] # "get") =>
              /\ pc'[t] = "idle"
              /\ (heap'[got'[t]] = <<>>) <=> (cur[t].device_id \notin DOMAIN actions)

C6_KeysNonEmpty == \A d \in DOMAIN actions : heap[actions[d]] # <<>>

\* C6: a device identifier is a key only when its sequence is non-empty, and
\* a get_device call never ends in an error: it returns, and returns the
\* empty sequence exactly when nothing was recorded for the identifier.
C6_AbsentKeyYieldsEmpty == [][C6_GetStep /\ C6_KeysNonEmpty']_vars

\* C7: store_record never fails because the registry lock is held by
\* another thread (inside get_device or inside another store_record).
C7_RecordSafeUnderContention == \A t \in Threads : ret[t] # "WouldBlock"

\* a held result is still allocated and unchanged after the step
C8_SnapshotStep ==
    \A t \in Threads :
        (got[t] # 0 /\ got'[t] = got[t]) =>
            /\ got[t] \in DOMAIN heap'
            /\ heap'[got[t]] = heap[got[t]]

\* C8: a Vec returned by get_device keeps its contents for as long as the
\* caller holds it, whatever is recorded afterwards.
C8_GetReturnsSnapshot == [][C8_SnapshotStep]_vars

C8_Witness ==
    \E t \in Threads :
        /\ got[t] # 0
        /\ Len(heap[got[t]]) = 1
        /\ heap[got[t]][1].message.DeviceIndex = 1
        /\ Len(Vec(1)) = 2
        /\ got[t] # actions[1]

\* normalization in the order the resolver's description gives it: trim,
\* then lower-case
NormalizeTag(str) == to_lowercase(trim(str))

NormalizedSet(events) == {NormalizeTag(events[i]) : i \in 1..Len(events)}

Qualifies(d, events) ==
    /\ d.enabled
    /\ \/ events = <<>>
       \/ \E tag \in NormalizedSet(events) : tag \in Range(d.events)

Resolved == params # NoParams

\* C9: a name is in the selector iff it is the name of an enabled entry
\* whose tag set holds a normalized requested tag (or the request is empty);
\* the selector has one element per such entry; so no disabled entry is
\* selected, an empty request selects every enabled entry, and a request no
\* entry matches gives an empty selector.
C9_SelectorIsEnabledAndTagged ==
    Resolved =>
        LET hit == {i \in 1..Len(settings) : Qualifies(settings[i], params.events)} IN
        /\ Range(params.selector) = {settings[i].name : i \in hit}
        /\ Len(params.selector) = Cardinality(hit)
        /\ \A i \in 1..Len(settings) : ~settings[i].enabled => i \notin hit
        /\ params.events = <<>> =>
              Len(params.selector) =
                  Cardinality({i \in 1..Len(settings) : settings[i].enabled})
        /\ (\A i \in 1..Len(settings) :
               NormalizedSet(params.events) \cap Range(settings[i].events) = {})
             /\ params.events # <<>> => params.selector = <<>>

C9_Witness ==
    /\ Resolved
    /\ params.events = << <<" ", "v", " ">> >>
    /\ params.selector = <<"b">>
    /\ Len(settings) = 2
    /\ settings[1] = [name |-> "a", enabled |-> FALSE, events |-> << <<"v">> >>]
    /\ settings[2] = [name |-> "b", enabled |-> TRUE, events |-> << <<"v">> >>]

\* C10: every requested tag list with the same set of normalized tags as the
\* resolved one yields the same selector.
C10_SameNormalizedTagsSameSelector ==
    Resolved =>
        LET tags == NormalizedSet(params.events) IN
        \A other \in EventLists :
            NormalizedSet(other) = tags =>
                from_input(other, params.pattern, settings).selector = params.selector

C10_Witness ==
    /\ Resolved
    /\ params.events = << <<"V">>, <<" ", "v", " ">> >>
    /\ params.selector # <<>>
    /\ \E i \in 1..Len(settings) : ~Qualifies(settings[i], params.events)
    /\ from_input(<< <<"v">> >>, params.pattern, settings).selector = params.selector

\* the requests whose reply is sent on the outbound channel
RepliedKinds ==
    RecordedKinds \cup {"RequestServerInfo", "RequestDeviceList", "StopAllDevices"}

C11_Step ==
    \A t \in Threads :
        /\ (pc[t] = "idle" /\ log' # log /\ pc'[t] # "idle"
              /\ log'[Len(log')].kind \in RepliedKinds
              /\ ~chan[server_outbound_sender].open)
             => pc'[t] \in {"store", "future"}
        /\ (pc[t] = "store" /\ pc'[t] # "store" /\ cur[t].imp.kind \in RepliedKinds)
             => pc'[t] = "future"
        /\ (pc[t] = "future" /\ pc'[t] # "future"
              /\ log[Len(log)].kind \in RepliedKinds
              /\ ~chan[cur[t].chan].open)
             => /\ pc'[t] = "idle"
                /\ ret'[t] = "ConnectorNotConnected"

\* C11: with the receiver of the outbound channel gone, a send of a
\* server-info request, device-list request, scalar, linear, rotate or
\* stop-all-devices command does not panic, and its future completes with
\* ConnectorNotConnected returned to the caller.
C11_ClosedChannelIsNotConnected == [][C11_Step]_vars

C11_Witness ==
    /\ server_outbound_sender = 1
    /\ ~chan[1].open
    /\ Len(log) = 2
    /\ log[1].kind = "RequestServerInfo"
    /\ log[2].kind = "LinearCmd"
    /\ received[1] = <<ServerInfoMsg>>
    /\ pc[ClientThread] = "idle"
    /\ ret[ClientThread] = "ConnectorNotConnected"

C12_Step ==
    \A t \in Threads :
        (pc[t] = "store" /\ pc'[t] # "store" /\ cur[t].imp.kind \in ScanKinds
           /\ server_outbound_sender # 0 /\ chan[server_outbound_sender].open)
          => /\ pc'[t] = "future"
             /\ cur'[t] = ok_response(server_outbound_sender, cur[t].imp.Id)
             /\ \E d \in DOMAIN actions' :
                   LET vec == heap'[actions'[d]] IN
                   /\ vec # <<>>
                   /\ vec[Len(vec)].message = cur[t].imp
             /\ ~poisoned'

\* C12: a scan-start or scan-stop command sent to the connected server does
\* not fail: store_record extracts its device identifier and appends the
\* command under it, and the acknowledgement future carrying the command's
\* id is returned.
C12_ScanIsRecordedAndAcknowledged == [][C12_Step]_vars

C13_Step ==
    \A t \in Threads :
        (pc[t] = "idle" /\ log' # log /\ pc'[t] # "idle"
           /\ log'[Len(log')].kind = "RequestServerInfo")
          => /\ pc'[t] = "future"
             /\ cur'[t].sends
             /\ cur'[t].reply.kind = "ServerInfo"
             /\ cur'[t].reply.ServerName = "test server"
             /\ cur'[t].reply.MessageVersion = 3
             /\ cur'[t].reply.Id = log'[Len(log')].Id

\* C13: the reply to a server-info request with correlation id i is a
\* server-info message with the fixed server name and protocol version whose
\* correlation id is i.
C13_ServerInfoKeepsRequestId == [][C13_Step]_vars

C14_Step ==
    \A t \in Threads :
        /\ (pc[t] = "idle" /\ log' # log /\ pc'[t] # "idle"
              /\ log'[Len(log')].kind = "RequestDeviceList")
             => /\ pc'[t] = "future"
                /\ cur'[t].sends
                /\ cur'[t].chan = server_outbound_sender
                /\ cur'[t].reply.kind = "DeviceList"
                /\ cur'[t].reply.Devices = <<>>
                /\ cur'[t].reply.Id = log'[Len(log')].Id
                /\ actions' = actions /\ heap' = heap
        /\ (pc[t] = "future" /\ pc'[t] # "future"
              /\ log[Len(log)].kind = "RequestDeviceList")
             => /\ chan[cur[t].chan].open =>
                    emitted'[cur[t].chan] = Append(emitted[cur[t].chan], cur[t].reply)
                /\ actions' = actions /\ heap' = heap

\* C14: the reply to a device-list request with correlation id i is a
\* device-list message with no devices and correlation id i, whatever the
\* roster holds and whatever was recorded before, and the request leaves
\* the registry as it was.
C14_DeviceListIsEmptyWithRequestId == [][C14_Step]_vars

C14_Witness ==
    /\ devices # <<>>
    /\ Len(log) = 2
    /\ log[1].kind = "ScalarCmd"
    /\ log[2].kind = "RequestDeviceList"
    /\ Len(Vec(1)) = 1
    /\ received[1] = <<OkMsg(1), [kind |-> "DeviceList", Id |-> 2, Devices |-> <<>>]>>

\* the message kinds that fall into the catch-all arm of send
UnmodelledKinds == {"Ping"}

C15_Step ==
    \A t \in Threads :
        /\ (pc[t] = "idle" /\ log' # log /\ pc'[t] # "idle"
              /\ log'[Len(log')].kind \in UnmodelledKinds)
             => /\ pc'[t] = "future"
                /\ actions' = actions /\ heap' = heap
        /\ (pc[t] = "future" /\ pc'[t] # "future"
              /\ log[Len(log)].kind \in UnmodelledKinds
              /\ chan[cur[t].chan].open)
             => /\ ret'[t] = "Ok"
                /\ emitted'[cur[t].chan] =
                      Append(emitted[cur[t].chan], OkMsg(log[Len(log)].Id))
                /\ actions' = actions /\ heap' = heap

\* C15: a message of a kind that send does not model is not rejected and
\* not recorded, and an acknowledgement carrying its id is put on the
\* outbound channel.
C15_UnmodelledKindIsAcknowledged == [][C15_Step]_vars

C16_Step ==
    /\ disconnected' # disconnected => disconnected'
    /\ disconnected => \A k \in Connects : DeviceAddedOn(k)' = DeviceAddedOn(k)

\* C16: disconnect completes with success in every state, and once it has
\* completed no further device-added notification is put on the outbound
\* channel, whether the announcement task was still sleeping or partway
\* through the roster.
C16_DisconnectStopsAnnouncements == [][C16_Step]_vars

C17_Step ==
    \A k \in Connects :
        /\ task'[k].pc # "panicked"
        /\ (task[k].pc = "send" /\ ~chan[k].open /\ task'[k] # task[k])
              => /\ task'[k].pc \in {"send", "done"}
                 /\ emitted' = emitted
        /\ (task[k].pc = "future" /\ task'[k].pc \notin {"future", "dropped"})
              => task'[k].pc = "sleep"

\* C17: when the receiver of the outbound channel is closed before the
\* announcement task sends, or while it is partway through the roster, the
\* task swallows the failed send and ends without panicking; connect itself
\* has returned success after spawning the task.
C17_AnnouncementOnClosedChannelIsNoOp == [][C17_Step]_vars

\* the command kind a pattern needs from a device
RequiredKind(pattern) ==
    CASE pattern = "Vibration" -> "ScalarCmd"
      [] pattern = "Stroke" -> "LinearCmd"

C18_Expected ==
    SelectSeq(connected, LAMBDA d :
        /\ d.name \in Range(params.selector)
        /\ RequiredKind(params.pattern) \in d.attributes)

\* C18: filter_devices returns, in the order of the connected-device list,
\* exactly the devices whose name is in the selector and whose capability
\* set holds the command kind the pattern requires (scalar for a vibration
\* pattern, linear for a stroke pattern).
C18_FilterByNameAndRequiredKind == filtered.done => filtered.list = C18_Expected

\* the trimmed, lower-cased segments that are not empty, in order
C19_Segments ==
    LET segs == split(input)
        norm == [i \in 1..Len(segs) |-> to_lowercase(trim(segs[i]))]
    IN SelectSeq(norm, LAMBDA e : e # <<>>)

\* C19: parse_list_string returns, in order, the trimmed and lower-cased
\* comma-separated segments without the empty ones; every element is
\* non-empty and has no surrounding whitespace; the result is a fixed point
\* of sanitize_name_list and equals what the length-prefixed encoding of the
\* same segments gives once read and sanitized.
C19_ParsedListIsClean ==
    parsed.done =>
        /\ parsed.list = C19_Segments
        /\ \A i \in 1..Len(parsed.list) :
              parsed.list[i] # <<>> /\ trim(parsed.list[i]) = parsed.list[i]
        /\ sanitize_name_list(parsed.list) = parsed.list
        /\ parsed.list = sanitize_name_list(read_input_string(split(input)))

\* a - d as an integer when the two are less than 2^17 apart
Difference(a, d) == (a.hi - d.hi) * 65536 + a.lo - d.lo

\* d - 10 <= a <= d + 10 over the integers
WithinTolerance(a, d) ==
    /\ a.hi - d.hi \in {-1, 0, 1}
    /\ Difference(a, d) >= -10
    /\ Difference(a, d) <= 10

\* C20: assert_duration(d) on a recorded linear command passes if and only
\* if every vector's duration a satisfies d - 10 <= a <= d + 10, for every
\* u32 d, those below 10 and those near the maximum included, and the bounds
\* are computed without overflow.
C20_PassesIffWithinTolerance ==
    (verdict # None /\ recorded.message.kind = "LinearCmd") =>
        /\ verdict = "Passed" <=>
              \A i \in 1..Len(recorded.message.Vectors) :
                  WithinTolerance(recorded.message.Vectors[i].Duration, expected)
        /\ verdict # "OverflowPanic"

C21_Step ==
    \A t \in Threads :
        /\ (pc[t] = "store" /\ pc'[t] # "store"
              /\ cur[t].imp.kind \in RecordedKinds
              /\ ~chan[server_outbound_sender].open)
             => LET d == cur[t].imp.DeviceIndex IN
                /\ d \in DOMAIN actions'
                /\ heap'[actions'[d]] = Append(Vec(d), cur[t].cmd)
                /\ pc'[t] = "future"
        /\ (pc[t] = "future" /\ pc'[t] # "future"
              /\ log[Len(log)].kind \in RecordedKinds
              /\ ~chan[cur[t].chan].open)
             => /\ ret'[t] = "ConnectorNotConnected"
                /\ IsRecorded(log[Len(log)])
                /\ actions' = actions /\ heap' = heap

\* C21: a scalar, linear or rotate command passed to send while the
\* outbound channel has no receiver (before connect, or after the client
\* dropped it) is appended to its device's sequence all the same, and the
\* send then ends with ConnectorNotConnected; the failed send leaves the
\* record in place.
C21_RecordedDespiteNotConnected == [][C21_Step]_vars

C21_Witness ==
    /\ server_outbound_sender = 0
    /\ \A k \in Connects : task[k].pc = "none"
    /\ Len(log) = 2
    /\ log[1].kind = "ScalarCmd" /\ log[1].DeviceIndex = 1
    /\ log[2].kind = "RotateCmd" /\ log[2].DeviceIndex = 12
    /\ [j \in 1..Len(Vec(1)) |-> Vec(1)[j].message] = <<log[1]>>
    /\ [j \in 1..Len(Vec(12)) |-> Vec(12)[j].message] = <<log[2]>>
    /\ pc[ClientThread] = "idle"
    /\ ret[ClientThread] = "ConnectorNotConnected"
    /\ emitted = [k \in Chans |-> <<>>]

C22_Step ==
    /\ \A e \in DeviceIds \cup {7} :
          LET after == Bucket(actions', heap', e) IN
          after # Vec(e) =>
              \E t \in Threads :
                  /\ pc[t] = "store" /\ pc'[t] = "future"
                  /\ cur[t].imp.DeviceIndex = e
                  /\ after = Append(Vec(e), cur[t].cmd)
    /\ \A t \in Threads :
          (pc[t] = "store" /\ pc'[t] = "future") =>
              Bucket(actions', heap', cur[t].imp.DeviceIndex)
                  = Append(Vec(cur[t].imp.DeviceIndex), cur[t].cmd)
    /\ \A t \in Threads :
          (pc[t] = "get" /\ pc'[t] # "get") =>
              heap'[got'[t]] = Vec(cur[t].device_id)

\* C22: recording a command for device d extends d's sequence and leaves
\* get(e) as it was for every other identifier e; and get_device on the
\* registry handle handed out by new returns the sequence the connector's
\* records built up, the two sharing one map.
C22_RecordChangesOnlyItsDevice == [][C22_Step]_vars

C22_Witness ==
    \E t \in Threads :
        /\ Len(Vec(1)) = 1
        /\ Len(Vec(12)) = 1
        /\ Vec(7) = <<>>
        /\ Vec(1)[1].time < Vec(12)[1].time
        /\ got[t] # 0
        /\ heap[got[t]] = Vec(1)
        /\ nGets = 2

====
